---- MODULE Spec2Model ----
(***************************************************************************)
(* Model of the QA MCP server (src/unnamed/part_000): the module-level     *)
(* session state (browser, page, networkLogs), initBrowser, the response   *)
(* recorder attached to every page, and the seven registered tools.        *)
(*                                                                         *)
(* JavaScript runs every piece of code to its next await before anything   *)
(* else runs, so one action of the model is one such run: the synchronous  *)
(* code from the start of a tool call, or from the completion of an        *)
(* awaited operation, up to the next await (or the return / throw).       *)
(* The awaited puppeteer operations complete by an environment choice      *)
(* (success or failure).  Browser disconnection, page close and response   *)
(* events are environment actions.                                         *)
(*                                                                         *)
(* The program operators are pure functions over the record St of all the  *)
(* variables; an action is a guard and Set(f(St)).                         *)
(***************************************************************************)
EXTENDS Integers, Sequences, FiniteSets, TLC

VARIABLES
    browser,      \* part_000:9   stored browser handle, 0 = null
    page,         \* part_000:10  stored page handle, 0 = null
    networkLogs,  \* part_000:11  the log, a sequence of entries
    nBrowsers,    \* number of browsers puppeteer.launch has produced (handles 1..nBrowsers)
    connected,    \* browsers for which isConnected() is true
    closedB,      \* browsers on which browser.close() has completed
    nPages,       \* number of pages browser.newPage has produced (handles 1..nPages)
    pageBrowser,  \* pageBrowser[p]: the browser page p was opened in
    pageClosed,   \* pages for which isClosed() is true
    listeners,    \* listeners[p]: number of "response" listeners attached to page p
    nResp,        \* number of response events fired so far (responses 1..nResp, in arrival order)
    resp,         \* resp[r]: url, status and page of response r
    handlers,     \* response-handler instances suspended at an await
    calls,        \* calls[c]: the tool call in slot c
    hist          \* history of the session, read by the properties only

vars == <<browser, page, networkLogs, nBrowsers, connected, closedB, nPages,
          pageBrowser, pageClosed, listeners, nResp, resp, handlers, calls, hist>>

----------------------------------------------------------------------------
(* Bounds *)

\* browsers puppeteer.launch may produce
MaxBrowsers == 2
\* pages browser.newPage may produce
MaxPages == 2
\* responses that may arrive, in Spec and NavSpec
MaxResp == 1
\* responses that may arrive, in NetSpec and NavLogSpec
MaxNetResp == 2
\* slots for tool calls (calls in flight at once; one when calls are serialized)
MaxCalls == 2

Slots == 1..MaxCalls

----------------------------------------------------------------------------
(* Strings are sequences of characters, so that startsWith and includes    *)
(* are computed, not assumed.                                              *)

UrlA == <<"h","t","t","p",":","a">>
UrlB == <<"h","t","t","p","s",":","B">>
UrlD == <<"d","a","t","a",":","a">>

\* what a response event may carry: url and status
ResponseInputs ==
    { [url |-> UrlA, status |-> 200],
      [url |-> UrlB, status |-> 404],
      [url |-> UrlD, status |-> 200] }

\* the argument of visit_page
VisitUrls == { UrlA }

\* the keyword of check_network_request
Keywords == { <<"a">>, <<"B">>, <<"b">>, <<>> }

\* the keyword of click_element, the text of assert_text
PageKeywords == { <<"B">>, <<>> }

\* the keyword of fill_form
FillKeywords == { <<"B">>, <<>>, <<"E","m">> }

\* the failures page.goto reports
GotoErrors == { "timeout", "neterr" }

\* String.prototype.startsWith
StartsWith(s, pre) ==
    /\ Len(pre) <= Len(s)
    /\ \A i \in 1..Len(pre) : s[i] = pre[i]

\* String.prototype.includes
Includes(s, k) ==
    \E off \in 0..Len(s) :
        /\ off + Len(k) <= Len(s)
        /\ \A i \in 1..Len(k) : s[off + i] = k[i]

----------------------------------------------------------------------------
(* The state as one record, and its assignment to the primed variables.    *)

St ==
    [ browser |-> browser, page |-> page, networkLogs |-> networkLogs,
      nBrowsers |-> nBrowsers, connected |-> connected, closedB |-> closedB,
      nPages |-> nPages, pageBrowser |-> pageBrowser, pageClosed |-> pageClosed,
      listeners |-> listeners, nResp |-> nResp, resp |-> resp,
      handlers |-> handlers, calls |-> calls, hist |-> hist ]

Set(s) ==
    /\ browser' = s.browser
    /\ page' = s.page
    /\ networkLogs' = s.networkLogs
    /\ nBrowsers' = s.nBrowsers
    /\ connected' = s.connected
    /\ closedB' = s.closedB
    /\ nPages' = s.nPages
    /\ pageBrowser' = s.pageBrowser
    /\ pageClosed' = s.pageClosed
    /\ listeners' = s.listeners
    /\ nResp' = s.nResp
    /\ resp' = s.resp
    /\ handlers' = s.handlers
    /\ calls' = s.calls
    /\ hist' = s.hist

\* a page on which a puppeteer operation can succeed: open, in a connected browser
PageLive(s, p) ==
    /\ p \in 1..s.nPages
    /\ p \notin s.pageClosed
    /\ s.pageBrowser[p] \in s.connected

----------------------------------------------------------------------------
(* Tool calls.  A call's record holds the handler's locals (tool, arg, p), *)
(* its position (pc, the await it is suspended at), the browser object a   *)
(* pending close or newPage was invoked on (nb), its outcome (ret), and in *)
(* g what the properties need to remember about the call.                  *)

NoRet == [kind |-> "none", msg |-> "", detail |-> <<>>, data |-> <<>>]

\* { content: [{ type: "text", text }] }: one content block of type text
TextResult(m, d) == [kind |-> "text", msg |-> m, detail |-> d, data |-> <<>>]

\* the handler's promise rejects with the error
Thrown(e) == [kind |-> "thrown", msg |-> e, detail |-> <<>>, data |-> <<>>]

\* JSON.stringify(networkLogs, null, 2): every entry, in order, with its fields
Stringify(log) ==
    [i \in 1..Len(log) |->
        [url |-> log[i].url, status |-> log[i].status, body |-> log[i].body,
         rid |-> log[i].rid]]

\* a text block holding serialized data
JsonResult(d) == [kind |-> "text", msg |-> "json", detail |-> <<>>, data |-> d]

G0 ==
    [ acq |-> "none",   \* initBrowser in this call: none, pending, returned, failed
      b0 |-> 0,         \* stored browser at the entry of initBrowser
      p0 |-> 0,         \* stored page at the entry of initBrowser
      d0 |-> FALSE,     \* the stored browser was non-null and disconnected at the entry
      live0 |-> FALSE,  \* at the entry the stored browser was connected and the stored page open
      hb |-> 0,         \* number of browser handles that existed at the entry
      hp |-> 0,         \* number of page handles that existed at the entry
      nl |-> 0,         \* puppeteer.launch calls made by this call
      nc |-> 0,         \* browser.close calls made by this call
      no |-> 0,         \* browser.newPage calls made by this call
      na |-> 0,         \* page.on calls made by this call
      ab |-> 0,         \* stored browser when initBrowser returned
      ap |-> 0,         \* the page initBrowser returned
      live |-> FALSE,   \* when initBrowser returned: ap open and its browser connected
      idem |-> 0,       \* hist.lastRet when initBrowser returned
      prevAcq |-> "none", \* hist.lastAcq at the entry
      prev |-> "none",  \* hist.prev when the call started
      gb |-> 0,         \* stored browser when page.goto was called
      gp |-> 0,         \* stored page when page.goto was called
      gotoFailed |-> FALSE,
      ev |-> FALSE,     \* the in-page lookup of click_element / fill_form has run
      doc |-> <<>>,     \* the document it ran on
      el |-> 0 ]        \* the element it found (clicked, or handed to fill_form), 0 when none

IdleCall ==
    [ tool |-> "none", arg |-> <<>>, pc |-> "idle", p |-> 0, nb |-> 0,
      ret |-> NoRet, g |-> G0 ]

Free(s, c) == s.calls[c].pc \in {"idle", "done"}

InFlight(s) == { c \in Slots : ~Free(s, c) }

H0 ==
    [ lastRet |-> 0,      \* page returned by the latest initBrowser; 0 after a disconnection,
                          \* a page close or a failed initBrowser
      lastAcq |-> "none", \* outcome of the latest initBrowser: none, ok, failed
      prev |-> "none" ]   \* the latest completed call: none, visit_ok, visit_failed, other

\* the call returns or throws: its locals are gone, the slot holds the outcome
\* until it is reused
Complete(s, c, r, summary) ==
    [s EXCEPT !.calls[c].pc = "done",
              !.calls[c].p = 0,
              !.calls[c].nb = 0,
              !.calls[c].ret = r,
              !.calls[c].g = [G0 EXCEPT !.acq = s.calls[c].g.acq,
                                        !.prev = s.calls[c].g.prev,
                                        !.gb = s.calls[c].g.gb,
                                        !.gp = s.calls[c].g.gp,
                                        !.gotoFailed = s.calls[c].g.gotoFailed,
                                        !.ev = s.calls[c].g.ev,
                                        !.doc = s.calls[c].g.doc,
                                        !.el = s.calls[c].g.el],
              !.hist.prev = summary]

----------------------------------------------------------------------------
(* The page's document, as the in-page code of the tools reads it.  An     *)
(* element is its tag, its type attribute, its innerText, its placeholder, *)
(* its value and the innerText of its first label (hasLabel: labels[0]     *)
(* exists).  An absent attribute and an empty string are both <<>>: the    *)
(* code treats them alike (&&, || null).                                   *)

Elem(tag, typeAttr, text, ph, value, hasLabel, label) ==
    [tag |-> tag, typeAttr |-> typeAttr, text |-> text, placeholder |-> ph,
     value |-> value, hasLabel |-> hasLabel, label |-> label]

SubmitT == <<"s","u","b","m","i","t">>
TextT == <<"t","e","x","t">>
TextareaT == <<"t","e","x","t","a","r","e","a">>
ButtonTypes == { SubmitT, <<"r","e","s","e","t">>, <<"b","u","t","t","o","n">> }
Email == <<"E","m">>
Email2 == <<"E","m","2">>

\* e.type: the type property of the element, as the DOM derives it from the
\* attribute (a button without a valid type is a submit button, an input
\* without one is a text input)
TypeProp(e) ==
    CASE e.tag = "button" -> IF e.typeAttr \in ButtonTypes THEN e.typeAttr ELSE SubmitT
      [] e.tag = "input" -> IF e.typeAttr = <<>> THEN TextT ELSE e.typeAttr
      [] e.tag = "textarea" -> TextareaT
      [] OTHER -> e.typeAttr

DocEmpty == <<>>
DocForm ==
    << Elem("input", TextT, <<>>, Email, <<>>, FALSE, <<>>),
       Elem("input", <<>>, <<>>, Email2, <<"v">>, FALSE, <<>>),
       Elem("textarea", <<>>, <<>>, <<>>, <<>>, TRUE, <<"a","B">>),
       Elem("button", <<>>, <<"O","k">>, <<>>, <<>>, FALSE, <<>>),
       Elem("input", SubmitT, <<>>, <<>>, <<"G","o">>, FALSE, <<>>) >>
DocLinks ==
    << Elem("a", <<>>, <<>>, <<>>, <<>>, FALSE, <<>>),
       Elem("a", <<>>, <<"a","B">>, <<>>, <<>>, FALSE, <<>>),
       Elem("button", SubmitT, <<"B">>, <<>>, <<>>, FALSE, <<>>),
       Elem("input", TextT, <<>>, <<>>, <<>>, TRUE, <<>>) >>

\* <input placeholder=""> with no label, then an anchor with text
DocBare ==
    << Elem("input", TextT, <<>>, <<>>, <<>>, FALSE, <<>>),
       Elem("a", <<>>, <<"B">>, <<>>, <<>>, FALSE, <<>>) >>

Docs == { DocEmpty, DocForm, DocLinks, DocBare }

\* page.content(): the markup of the page
Markups == { <<>>, <<"a","B">> }

\* document.querySelectorAll: indices of the elements with one of the tags, in
\* document order; with submitOnly, of the inputs only those with type=submit
Select(doc, tags, submitOnly) ==
    { i \in 1..Len(doc) :
        /\ doc[i].tag \in tags
        /\ (submitOnly /\ doc[i].tag = "input") => doc[i].typeAttr = SubmitT }

\* Array.prototype.find: the first of the indices that pass the test, 0
\* (undefined) when none does
FirstOf(passing) ==
    IF passing = {}
    THEN 0
    ELSE CHOOSE i \in passing : \A j \in passing : i <= j

\* part_000:112-117: the element click_element clicks, 0 when none
ClickTarget(doc, k) ==
    LET els == Select(doc, {"a", "button", "input"}, TRUE)
        T(i) == \/ (doc[i].text # <<>> /\ Includes(doc[i].text, k))
                \/ (TypeProp(doc[i]) # <<>> /\ TypeProp(doc[i]) = k)
    IN FirstOf({ i \in els : T(i) })

\* part_000:142-146: the element fill_form types into, 0 when none
FillTarget(doc, k) ==
    LET els == Select(doc, {"input", "textarea"}, FALSE)
        T(i) == \/ (doc[i].placeholder # <<>> /\ Includes(doc[i].placeholder, k))
                \/ (doc[i].hasLabel /\ Includes(doc[i].label, k))
    IN FirstOf({ i \in els : T(i) })

\* part_000:89-94: the descriptors list_elements returns; || null turns an
\* empty string into null, and text falls back to the value
Describe(doc) ==
    LET OrNull(x) == IF x = <<>> THEN <<"null">> ELSE x
        Listed(e) == e.tag \in {"a", "button", "input", "textarea"}
        els == SelectSeq(doc, Listed)
    IN [i \in 1..Len(els) |->
          [tag |-> els[i].tag,
           type |-> OrNull(els[i].typeAttr),
           placeholder |-> OrNull(els[i].placeholder),
           text |-> OrNull(IF els[i].text # <<>> THEN els[i].text ELSE els[i].value)]]

----------------------------------------------------------------------------
(* initBrowser, part_000:14-57 *)

\* the catch block forgetting to clear the page reference
CatchInitKeepsPage(s, c) ==
    LET s1 == [s EXCEPT !.browser = 0,
                        !.calls[c].g.acq = "failed",
                        !.hist.lastAcq = "failed",
                        !.hist.lastRet = 0]
    IN Complete(s1, c, Thrown("initBrowser"), "other")

\* part_000:51-56: the catch block clears both references and rethrows; no
\* tool catches it, so the tool call ends by throwing
CatchInit(s, c) ==
    LET s1 == [s EXCEPT !.browser = 0,
                        !.page = 0,
                        !.calls[c].g.acq = "failed",
                        !.hist.lastAcq = "failed",
                        !.hist.lastRet = 0]
    IN Complete(s1, c, Thrown("initBrowser"), "other")

\* part_000:67-70, 86-88, 109-111, 137-141, 174-176: the tool handler resumes
\* after "const p = await initBrowser()" and runs to its first await
ToolBody(s, c) ==
    LET tool == s.calls[c].tool
        pc1 == CASE tool = "visit_page" -> "goto"
                 [] tool = "list_elements" -> "evaluate"
                 [] tool = "click_element" -> "evaluate"
                 [] tool = "fill_form" -> "evaluateHandle"
                 [] tool = "assert_text" -> "content"
    IN IF tool = "visit_page"
       THEN [s EXCEPT !.calls[c].pc = pc1,
                      !.calls[c].g.gb = s.browser,
                      !.calls[c].g.gp = s.page]
       ELSE [s EXCEPT !.calls[c].pc = pc1]

\* part_000:50: return page
ReturnPage(s, c) ==
    LET s1 == [s EXCEPT !.calls[c].p = s.page,
                        !.calls[c].g.acq = "returned",
                        !.calls[c].g.ab = s.browser,
                        !.calls[c].g.ap = s.page,
                        !.calls[c].g.live = PageLive(s, s.page),
                        !.calls[c].g.idem = s.hist.lastRet,
                        !.hist.lastRet = s.page,
                        !.hist.lastAcq = "ok"]
    IN ToolBody(s1, c)

\* a page check that opens a page on every call
NeedsPageAlways(s) == TRUE

\* part_000:26: the page is missing or closed
NeedsPage(s) == s.page = 0 \/ s.page \in s.pageClosed

\* part_000:30-47: page.on("response", handler) on the stored page
AttachRecorder(s, c) ==
    [s EXCEPT !.listeners[s.page] = @ + 1, !.calls[c].g.na = @ + 1]

\* a page check that binds the recorder on every call, also to the stored page
CheckPageBindsAgain(s, c) ==
    IF NeedsPage(s)
    THEN [s EXCEPT !.calls[c].pc = "newPage",
                   !.calls[c].nb = s.browser,
                   !.calls[c].g.no = @ + 1]
    ELSE ReturnPage(AttachRecorder(s, c), c)

\* part_000:26-27, 50: open a page when there is none, else return the stored one
CheckPage(s, c) ==
    IF NeedsPage(s)
    THEN [s EXCEPT !.calls[c].pc = "newPage",
                   !.calls[c].nb = s.browser,
                   !.calls[c].g.no = @ + 1]
    ELSE ReturnPage(s, c)

\* part_000:19: puppeteer.launch(...) is called and awaited
CallLaunch(s, c) ==
    [s EXCEPT !.calls[c].pc = "launch", !.calls[c].g.nl = @ + 1]

\* part_000:17: the browser is missing or not connected
NeedsBrowser(s) == s.browser = 0 \/ s.browser \notin s.connected

\* part_000:14-19: the entry of initBrowser, up to its first await
InitBrowser(s, c) ==
    LET s1 == [s EXCEPT !.calls[c].g.acq = "pending",
                        !.calls[c].g.b0 = s.browser,
                        !.calls[c].g.p0 = s.page,
                        !.calls[c].g.d0 = (s.browser # 0 /\ s.browser \notin s.connected),
                        !.calls[c].g.live0 =
                            (s.browser \in s.connected /\ s.page # 0 /\ s.page \notin s.pageClosed),
                        !.calls[c].g.hb = s.nBrowsers,
                        !.calls[c].g.hp = s.nPages,
                        !.calls[c].g.prevAcq = s.hist.lastAcq]
    IN IF NeedsBrowser(s1)
       THEN IF s1.browser # 0
            THEN [s1 EXCEPT !.calls[c].pc = "close",
                            !.calls[c].nb = s1.browser,
                            !.calls[c].g.nc = @ + 1]
            ELSE CallLaunch(s1, c)
       ELSE CheckPage(s1, c)

\* part_000:18-19: browser.close() resolved; launch follows
AfterClose(s, c) ==
    CallLaunch([s EXCEPT !.closedB = @ \cup {s.calls[c].nb},
                         !.connected = @ \ {s.calls[c].nb}], c)

\* a relaunch that starts the new session with an empty log
AfterLaunchClearsLog(s, c) ==
    LET b == s.nBrowsers + 1
    IN CheckPage([s EXCEPT !.nBrowsers = b,
                           !.connected = @ \cup {b},
                           !.browser = b,
                           !.networkLogs = <<>>], c)

\* part_000:19-26: puppeteer.launch resolved with a new browser, which is stored
AfterLaunch(s, c) ==
    LET b == s.nBrowsers + 1
    IN CheckPage([s EXCEPT !.nBrowsers = b,
                           !.connected = @ \cup {b},
                           !.browser = b], c)

\* part_000:27-50: browser.newPage() resolved with a new page, which is stored;
\* the recorder is attached and the page is returned
AfterNewPage(s, c) ==
    LET p == s.nPages + 1
        s1 == [s EXCEPT !.nPages = p,
                        !.pageBrowser = Append(@, s.calls[c].nb),
                        !.listeners = Append(@, 0),
                        !.page = p]
    IN ReturnPage(AttachRecorder(s1, c), c)

----------------------------------------------------------------------------
(* The tool handlers after initBrowser has returned *)

\* part_000:71: page.goto resolved
GotoOk(s, c) ==
    Complete(s, c, TextResult("Visited", s.calls[c].arg), "visit_ok")

\* a navigation failure handled like an initBrowser failure: references cleared
GotoFailClears(s, c, err) ==
    Complete([s EXCEPT !.calls[c].g.gotoFailed = TRUE, !.browser = 0, !.page = 0], c,
             TextResult("VisitFailed", <<err>>), "visit_failed")

\* part_000:72-74: page.goto rejected; the catch returns the failure text
GotoFail(s, c, err) ==
    Complete([s EXCEPT !.calls[c].g.gotoFailed = TRUE], c,
             TextResult("VisitFailed", <<err>>), "visit_failed")

\* part_000:88-96: list_elements, page.evaluate resolved on document doc
ListOk(s, c, doc) ==
    Complete(s, c, JsonResult(Describe(doc)), "other")

\* part_000:111-124: click_element, page.evaluate resolved on document doc
ClickOk(s, c, doc) ==
    LET k == s.calls[c].arg
        s1 == [s EXCEPT !.calls[c].g.ev = TRUE,
                        !.calls[c].g.doc = doc,
                        !.calls[c].g.el = ClickTarget(doc, k)]
    IN Complete(s1, c,
                IF ClickTarget(doc, k) # 0
                THEN TextResult("Clicked", k)
                ELSE TextResult("NotFound", k), "other")

\* part_000:141-157: fill_form, page.evaluateHandle resolved on document doc
FillFound(s, c, doc) ==
    LET k == s.calls[c].arg
        s1 == [s EXCEPT !.calls[c].g.ev = TRUE,
                        !.calls[c].g.doc = doc,
                        !.calls[c].g.el = FillTarget(doc, k)]
    IN IF FillTarget(doc, k) = 0
       THEN Complete(s1, c, TextResult("InputNotFound", k), "other")
       ELSE [s1 EXCEPT !.calls[c].pc = "click"]

\* part_000:157-161: fill_form, click / press / type resolved
FillStep(s, c) ==
    LET pc == s.calls[c].pc
    IN CASE pc = "click" -> [s EXCEPT !.calls[c].pc = "press"]
         [] pc = "press" -> [s EXCEPT !.calls[c].pc = "type"]
         [] pc = "type" -> Complete(s, c, TextResult("Typed", s.calls[c].arg), "other")

\* part_000:176-179: assert_text, page.content resolved with markup
ContentOk(s, c, markup) ==
    LET txt == s.calls[c].arg
    IN Complete(s, c,
                IF Includes(markup, txt)
                THEN TextResult("Found", txt)
                ELSE TextResult("NotFound", txt), "other")

\* part_000:88, 111, 141, 157-159, 176: an awaited page operation outside any
\* try block rejected: the handler throws
PageOpFail(s, c) ==
    Complete(s, c, Thrown(s.calls[c].pc), "other")

\* part_000:191-193
GetNetworkLogs(s, c) ==
    Complete(s, c, JsonResult(Stringify(s.networkLogs)), "other")

\* check_network_request returning the matching entries only
CheckNetworkRequestFiltered(s, c) ==
    LET k == s.calls[c].arg
        Match(e) == Includes(e.url, k)
        found == SelectSeq(s.networkLogs, Match)
    IN Complete(s, c,
                IF Len(found) # 0
                THEN JsonResult(Stringify(found))
                ELSE TextResult("NoRequestFound", k), "other")

\* part_000:204-209
CheckNetworkRequest(s, c) ==
    LET k == s.calls[c].arg
        Match(e) == Includes(e.url, k)
        found == SelectSeq(s.networkLogs, Match)
    IN Complete(s, c,
                IF Len(found) # 0
                THEN JsonResult(Stringify(s.networkLogs))
                ELSE TextResult("NoRequestFound", k), "other")

\* a handler that waits for the calls in flight before it enters initBrowser
InvokeQueued(s, c, tool, arg) ==
    LET s1 == [s EXCEPT !.calls[c] =
                  [IdleCall EXCEPT !.tool = tool, !.arg = arg, !.pc = "start",
                                   !.g.prev = s.hist.prev]]
    IN CASE tool = "get_network_logs" -> GetNetworkLogs(s1, c)
         [] tool = "check_network_request" -> CheckNetworkRequest(s1, c)
         [] InFlight(s) # {} -> s1
         [] OTHER -> InitBrowser(s1, c)

\* every handler, the log queries included, starting with initBrowser
InvokeAcquires(s, c, tool, arg) ==
    LET s1 == [s EXCEPT !.calls[c] =
                  [IdleCall EXCEPT !.tool = tool, !.arg = arg, !.pc = "start",
                                   !.g.prev = s.hist.prev]]
    IN InitBrowser(s1, c)

\* the dispatcher invokes a handler: part_000:67, 86, 109, 137, 174, 191, 204
Invoke(s, c, tool, arg) ==
    LET s1 == [s EXCEPT !.calls[c] =
                  [IdleCall EXCEPT !.tool = tool, !.arg = arg, !.pc = "start",
                                   !.g.prev = s.hist.prev]]
    IN CASE tool = "get_network_logs" -> GetNetworkLogs(s1, c)
         [] tool = "check_network_request" -> CheckNetworkRequest(s1, c)
         [] OTHER -> InitBrowser(s1, c)

----------------------------------------------------------------------------
(* The response recorder, part_000:30-47 *)

Http == <<"h","t","t","p">>

\* a recorder without the filter
RetainedAll(url) == TRUE

\* part_000:33: the response is recorded
Retained(url) == StartsWith(url, Http)

\* part_000:31-37: listener k runs on response r up to "await res.json()"
OnResponse(s, r, k) ==
    IF ~Retained(s.resp[r].url)
    THEN s
    ELSE [s EXCEPT !.handlers = @ \cup {[rid |-> r, k |-> k, pc |-> "json"]}]

\* the page emits the event to each of its n listeners
RECURSIVE Emit(_, _, _)
Emit(s, r, n) == IF n = 0 THEN s ELSE Emit(OnResponse(s, r, n), r, n - 1)

\* part_000:46: networkLogs.push({ url, status, body, time }); rid names the
\* response the entry was made from (the capture time itself is not modelled)
Push(s, h, body) ==
    [s EXCEPT !.networkLogs =
                  Append(@, [url |-> s.resp[h.rid].url, status |-> s.resp[h.rid].status,
                             body |-> body, rid |-> h.rid]),
              !.handlers = @ \ {h}]

\* part_000:37, 46: res.json() resolved
JsonOk(s, h) == Push(s, h, "json")

\* part_000:38-40: res.json() rejected, res.text() is awaited
JsonFail(s, h) ==
    [s EXCEPT !.handlers = (@ \ {h}) \cup {[h EXCEPT !.pc = "text"]}]

\* part_000:40, 46: res.text() resolved
TextOk(s, h) == Push(s, h, "text")

\* a handler that gives up without an entry when both decodes fail
TextFailDrops(s, h) == [s EXCEPT !.handlers = @ \ {h}]

\* part_000:41-46: res.text() rejected
TextFail(s, h) == Push(s, h, "null")

----------------------------------------------------------------------------
(* The environment: the browser process and the pages *)

\* a response arrives on page p
Arrive(s, p, in) ==
    LET r == s.nResp + 1
        s1 == [s EXCEPT !.nResp = r,
                        !.resp = Append(@, [url |-> in.url, status |-> in.status, page |-> p])]
    IN Emit(s1, r, s.listeners[p])

\* browser b disconnects (crash, kill, the window is closed); its pages may
\* or may not report closed afterwards
Drop(s, b, pagesClose) ==
    LET own == { p \in 1..s.nPages : s.pageBrowser[p] = b }
    IN [s EXCEPT !.connected = @ \ {b},
                 !.pageClosed = IF pagesClose THEN @ \cup own ELSE @,
                 !.hist.lastRet = 0]

\* page p is closed
ClosePage(s, p) ==
    [s EXCEPT !.pageClosed = @ \cup {p},
              !.hist.lastRet = 0]

----------------------------------------------------------------------------
(* Initial state: part_000:9-11, no call dispatched yet *)

Init ==
    /\ browser = 0
    /\ page = 0
    /\ networkLogs = <<>>
    /\ nBrowsers = 0
    /\ connected = {}
    /\ closedB = {}
    /\ nPages = 0
    /\ pageBrowser = <<>>
    /\ pageClosed = {}
    /\ listeners = <<>>
    /\ nResp = 0
    /\ resp = <<>>
    /\ handlers = {}
    /\ calls = [c \in Slots |-> IdleCall]
    /\ hist = H0

----------------------------------------------------------------------------
(* Actions.  lim is the number of calls that may be in flight when a new   *)
(* one is dispatched: 0 when the caller issues its calls one at a time.    *)

CanStart(c, lim) ==
    /\ Free(St, c)
    /\ Cardinality(InFlight(St)) <= lim
    /\ \A d \in Slots : d < c => ~Free(St, d)

StartVisit(c, lim) ==
    /\ CanStart(c, lim)
    /\ \E u \in VisitUrls : Set(Invoke(St, c, "visit_page", u))

StartList(c, lim) ==
    /\ CanStart(c, lim)
    /\ Set(Invoke(St, c, "list_elements", <<>>))

StartClick(c, lim) ==
    /\ CanStart(c, lim)
    /\ \E k \in PageKeywords : Set(Invoke(St, c, "click_element", k))

StartFill(c, lim) ==
    /\ CanStart(c, lim)
    /\ \E k \in FillKeywords : Set(Invoke(St, c, "fill_form", k))

StartAssert(c, lim) ==
    /\ CanStart(c, lim)
    /\ \E k \in PageKeywords : Set(Invoke(St, c, "assert_text", k))

StartGetLogs(c, lim) ==
    /\ CanStart(c, lim)
    /\ Set(Invoke(St, c, "get_network_logs", <<>>))

StartCheck(c, lim) ==
    /\ CanStart(c, lim)
    /\ \E k \in Keywords : Set(Invoke(St, c, "check_network_request", k))

CloseOk(c) ==
    /\ calls[c].pc = "close"
    /\ Set(AfterClose(St, c))

CloseFail(c) ==
    /\ calls[c].pc = "close"
    /\ Set(CatchInit(St, c))

LaunchOk(c) ==
    /\ calls[c].pc = "launch"
    /\ nBrowsers < MaxBrowsers
    /\ Set(AfterLaunch(St, c))

LaunchFail(c) ==
    /\ calls[c].pc = "launch"
    /\ Set(CatchInit(St, c))

NewPageOk(c) ==
    /\ calls[c].pc = "newPage"
    /\ calls[c].nb \in connected
    /\ nPages < MaxPages
    /\ Set(AfterNewPage(St, c))

NewPageFail(c) ==
    /\ calls[c].pc = "newPage"
    /\ Set(CatchInit(St, c))

GotoDone(c) ==
    /\ calls[c].pc = "goto"
    /\ PageLive(St, calls[c].p)
    /\ Set(GotoOk(St, c))

GotoError(c) ==
    /\ calls[c].pc = "goto"
    /\ \E e \in GotoErrors : Set(GotoFail(St, c, e))

ListDone(c) ==
    /\ calls[c].pc = "evaluate"
    /\ calls[c].tool = "list_elements"
    /\ PageLive(St, calls[c].p)
    /\ \E d \in Docs : Set(ListOk(St, c, d))

ClickDone(c) ==
    /\ calls[c].pc = "evaluate"
    /\ calls[c].tool = "click_element"
    /\ PageLive(St, calls[c].p)
    /\ \E d \in Docs : Set(ClickOk(St, c, d))

FillLookupDone(c) ==
    /\ calls[c].pc = "evaluateHandle"
    /\ PageLive(St, calls[c].p)
    /\ \E d \in Docs : Set(FillFound(St, c, d))

FillStepDone(c) ==
    /\ calls[c].pc \in {"click", "press", "type"}
    /\ PageLive(St, calls[c].p)
    /\ Set(FillStep(St, c))

ContentDone(c) ==
    /\ calls[c].pc = "content"
    /\ PageLive(St, calls[c].p)
    /\ \E m \in Markups : Set(ContentOk(St, c, m))

PageOpError(c) ==
    /\ calls[c].pc \in {"evaluate", "evaluateHandle", "click", "press", "type", "content"}
    /\ Set(PageOpFail(St, c))

ResponseEvent(p, max) ==
    /\ nResp < max
    /\ PageLive(St, p)
    /\ \E in \in ResponseInputs : Set(Arrive(St, p, in))

JsonDone(h) ==
    /\ h.pc = "json"
    /\ resp[h.rid].page \in 1..nPages
    /\ pageBrowser[resp[h.rid].page] \in connected
    /\ Set(JsonOk(St, h))

JsonError(h) ==
    /\ h.pc = "json"
    /\ Set(JsonFail(St, h))

TextDone(h) ==
    /\ h.pc = "text"
    /\ pageBrowser[resp[h.rid].page] \in connected
    /\ Set(TextOk(St, h))

TextError(h) ==
    /\ h.pc = "text"
    /\ Set(TextFail(St, h))

Disconnect(b) ==
    /\ b \in connected
    /\ \E pc \in BOOLEAN : Set(Drop(St, b, pc))

PageClosed(p) ==
    /\ p \in 1..nPages
    /\ p \notin pageClosed
    /\ Set(ClosePage(St, p))

\* the awaited operations of the calls complete; browsers and pages die
SessionStep ==
    \/ \E c \in Slots :
         \/ CloseOk(c) \/ CloseFail(c)
         \/ LaunchOk(c) \/ LaunchFail(c)
         \/ NewPageOk(c) \/ NewPageFail(c)
         \/ GotoDone(c) \/ GotoError(c)
         \/ ListDone(c) \/ ClickDone(c)
         \/ FillLookupDone(c) \/ FillStepDone(c)
         \/ ContentDone(c) \/ PageOpError(c)
    \/ \E p \in 1..MaxPages : PageClosed(p)
    \/ \E b \in 1..MaxBrowsers : Disconnect(b)

\* responses arrive and their bodies are decoded
RecorderStep(max) ==
    \/ \E p \in 1..MaxPages : ResponseEvent(p, max)
    \/ \E h \in handlers : JsonDone(h)
    \/ \E h \in handlers : JsonError(h)
    \/ \E h \in handlers : TextDone(h)
    \/ \E h \in handlers : TextError(h)

Dispatch(lim) ==
    \E c \in Slots :
        \/ StartVisit(c, lim) \/ StartList(c, lim) \/ StartClick(c, lim)
        \/ StartFill(c, lim) \/ StartAssert(c, lim)
        \/ StartGetLogs(c, lim) \/ StartCheck(c, lim)

\* The whole program, the caller issuing its tool calls one at a time.
Next == Dispatch(0) \/ SessionStep \/ RecorderStep(MaxResp)

Spec == Init /\ [][Next]_vars

\* The session and the tools, the pages being silent (no response arrives):
\* the response handler reads and writes neither browser nor page.
SessionNext == Dispatch(0) \/ SessionStep

SessionSpec == Init /\ [][SessionNext]_vars

\* The recorder and the tools that read the log, on a session that stays
\* alive: visit_page, get_network_logs and check_network_request, one at a time.
NetNext ==
    \/ \E c \in Slots :
         \/ StartVisit(c, 0) \/ StartGetLogs(c, 0) \/ StartCheck(c, 0)
         \/ LaunchOk(c) \/ NewPageOk(c)
         \/ GotoDone(c) \/ GotoError(c)
    \/ RecorderStep(MaxNetResp)

NetSpec == Init /\ [][NetNext]_vars

\* Successful visit_page calls only, one at a time, browsers disconnecting and
\* pages closing between the calls; the pages visited answer with responses.
Quiet == InFlight(St) = {}

QuietDisconnect(b) == Quiet /\ Disconnect(b)

QuietPageClosed(p) == Quiet /\ PageClosed(p)

NavNext ==
    \/ \E c \in Slots :
         \/ StartVisit(c, 0)
         \/ CloseOk(c) \/ LaunchOk(c) \/ NewPageOk(c)
         \/ GotoDone(c)
    \/ \E b \in 1..MaxBrowsers : QuietDisconnect(b)
    \/ \E p \in 1..MaxPages : QuietPageClosed(p)
    \/ RecorderStep(MaxResp)

NavSpec == Init /\ [][NavNext]_vars

\* One navigation after another, each followed by reads of the log: only
\* visit_page and get_network_logs are called, one at a time, on a session that
\* stays alive, and responses arrive on a page only while a page.goto on it is
\* in flight.  Every response of a behaviour then arrived during a navigation
\* that had returned successfully before any get_network_logs that follows it.
Navigating(p) == \E c \in Slots : calls[c].pc = "goto" /\ calls[c].p = p

NavResponseEvent(p) == Navigating(p) /\ ResponseEvent(p, MaxNetResp)

NavLogNext ==
    \/ \E c \in Slots :
         \/ StartVisit(c, 0) \/ StartGetLogs(c, 0)
         \/ LaunchOk(c) \/ NewPageOk(c)
         \/ GotoDone(c)
    \/ \E p \in 1..MaxPages : NavResponseEvent(p)
    \/ \E h \in handlers : JsonDone(h)
    \/ \E h \in handlers : JsonError(h)
    \/ \E h \in handlers : TextDone(h)
    \/ \E h \in handlers : TextError(h)

NavLogSpec == Init /\ [][NavLogNext]_vars

\* The log across the life of several sessions: visit_page and
\* get_network_logs, one at a time; launches fail, browsers disconnect and
\* pages close between the calls, so that sessions are relaunched and pages
\* replaced; responses arrive during the navigations and are decoded at any
\* later time.
LogResponseEvent(p) == Navigating(p) /\ ResponseEvent(p, MaxResp)

LogNext ==
    \/ \E c \in Slots :
         \/ StartVisit(c, 0) \/ StartGetLogs(c, 0)
         \/ CloseOk(c)
         \/ LaunchOk(c) \/ LaunchFail(c)
         \/ NewPageOk(c)
         \/ GotoDone(c)
    \/ \E b \in 1..MaxBrowsers : QuietDisconnect(b)
    \/ \E p \in 1..MaxPages : QuietPageClosed(p)
    \/ \E p \in 1..MaxPages : LogResponseEvent(p)
    \/ \E h \in handlers : JsonDone(h)
    \/ \E h \in handlers : JsonError(h)
    \/ \E h \in handlers : TextDone(h)
    \/ \E h \in handlers : TextError(h)

LogSpec == Init /\ [][LogNext]_vars

\* Overlapping calls: the caller does not wait for a call to return before it
\* issues the next one.  visit_page only, every awaited operation succeeding,
\* browsers disconnecting between the calls.
ConcNext ==
    \/ \E c \in Slots :
         \/ StartVisit(c, MaxCalls - 1)
         \/ CloseOk(c) \/ LaunchOk(c) \/ NewPageOk(c)
         \/ GotoDone(c)
    \/ \E b \in 1..MaxBrowsers : QuietDisconnect(b)

ConcSpec == Init /\ [][ConcNext]_vars

----------------------------------------------------------------------------
(* Properties *)

\* the scheme of a url: the characters before the first ":"
Scheme(url) ==
    LET colons == { i \in 1..Len(url) : url[i] = ":" }
        first == CHOOSE i \in colons : \A j \in colons : i <= j
    IN IF colons = {} THEN <<>> ELSE SubSeq(url, 1, first - 1)

IsHttpScheme(url) == Scheme(url) \in { <<"h","t","t","p">>, <<"h","t","t","p","s">> }

\* number of log entries made from response r
Entries(log, r) == Cardinality({ i \in 1..Len(log) : log[i].rid = r })

\* call c is in flight and holds the page initBrowser returned to it (the
\* record of a completed call keeps only acq, prev, gb, gp, gotoFailed and the
\* in-page lookup)
Acquired(c) ==
    /\ calls[c].pc \notin {"idle", "done"}
    /\ calls[c].g.acq = "returned"

\* C1: when the stored browser reports disconnected at the entry of
\* initBrowser and initBrowser returns, the stored browser and the returned
\* page both differ from the ones stored before the call.
C1_RecoveryNewHandles ==
    \A c \in Slots :
        (Acquired(c) /\ calls[c].g.d0)
            => /\ calls[c].g.ab # calls[c].g.b0
               /\ calls[c].g.ap # calls[c].g.p0

\* C2: the log entries are in the arrival order of their responses: the entry
\* of an earlier response is at a lower index than the entry of a later one.
C2_LogInArrivalOrder ==
    \A i, j \in 1..Len(networkLogs) :
        networkLogs[i].rid < networkLogs[j].rid => i < j

\* C3: a failed initBrowser makes the tool call throw and leaves browser and
\* page null; no call launches twice; the initBrowser that follows a failed
\* one, when it returns, has made exactly one launch and opened exactly one
\* page, closed nothing, and returns a page handle that did not exist before,
\* opened in a browser handle that did not exist before.
C3_FailurePolicy ==
    \A c \in Slots :
        /\ calls[c].g.acq = "failed"
              => /\ calls[c].pc = "done"
                 /\ calls[c].ret.kind = "thrown"
                 /\ browser = 0
                 /\ page = 0
        /\ calls[c].g.nl <= 1
        /\ (calls[c].g.prevAcq = "failed" /\ Acquired(c))
              => /\ calls[c].g.nl = 1
                 /\ calls[c].g.no = 1
                 /\ calls[c].g.nc = 0
                 /\ calls[c].g.ab > calls[c].g.hb
                 /\ calls[c].g.ap > calls[c].g.hp
                 /\ pageBrowser[calls[c].g.ap] = calls[c].g.ab

C3_Witness ==
    \E c \in Slots : calls[c].g.prevAcq = "failed" /\ Acquired(c)

\* C4: every tool call that has completed returned one content block of type
\* text; none has thrown.
C4_AlwaysOneTextBlock ==
    \A c \in Slots : calls[c].pc = "done" => calls[c].ret.kind = "text"

\* C5: when initBrowser returns and no browser has disconnected, no page has
\* closed and no initBrowser has failed since the previous return, it returns
\* the page the previous one returned and has launched no browser, closed no
\* browser, opened no page and attached no listener.
C5_AcquireIdempotent ==
    \A c \in Slots :
        (Acquired(c) /\ calls[c].g.idem # 0)
            => /\ calls[c].g.ap = calls[c].g.idem
               /\ calls[c].g.nl = 0
               /\ calls[c].g.nc = 0
               /\ calls[c].g.no = 0
               /\ calls[c].g.na = 0

C5_Witness ==
    \E c \in Slots : Acquired(c) /\ calls[c].g.idem # 0

\* C6: the page initBrowser returns is open and belongs to a browser that is
\* connected at the moment of the return.
C6_AcquiredPageLive ==
    \A c \in Slots : Acquired(c) => calls[c].g.live

\* C7: the log get_network_logs returns right after a successful visit_page
\* holds exactly one entry for every http(s) response that arrived during the
\* navigation, these entries in arrival order, and none for any other
\* response.  (Under NavLogSpec every response arrived during a navigation.)
C7_LogCompleteAfterNavigate ==
    \A c \in Slots :
        (calls[c].pc = "done" /\ calls[c].tool = "get_network_logs"
                              /\ calls[c].g.prev = "visit_ok")
            => LET log == calls[c].ret.data
               IN /\ \A r \in 1..nResp :
                        Entries(log, r) = IF IsHttpScheme(resp[r].url) THEN 1 ELSE 0
                  /\ \A i, j \in 1..Len(log) :
                        log[i].rid < log[j].rid => i < j

\* C8: a response whose url has the scheme http or https has one log entry
\* once its handler has finished and none before; a response with any other
\* scheme has no entry and no handler waiting; no response has two entries.
C8_SchemeFilterExactlyOnce ==
    \A r \in 1..nResp :
        LET n == Entries(networkLogs, r)
            waiting == \E h \in handlers : h.rid = r
        IN /\ n <= 1
           /\ IsHttpScheme(resp[r].url) => (n = 1 <=> ~waiting)
           /\ ~IsHttpScheme(resp[r].url) => (n = 0 /\ ~waiting)

C8_Witness ==
    /\ \E r \in 1..nResp : ~IsHttpScheme(resp[r].url)
    /\ \E r \in 1..nResp : IsHttpScheme(resp[r].url) /\ Entries(networkLogs, r) = 1

\* some substring of s equals k
HasSubstring(s, k) ==
    \E a \in 1..(Len(s) + 1) : \E b \in 0..Len(s) : SubSeq(s, a, b) = k

\* C9: a step that completes check_network_request(k) leaves the log
\* unchanged; its result is the serialization of the entire log when some
\* entry's url has k as a substring, and the not-found text with no entry
\* otherwise.
C9_CheckNetworkRequest ==
    [][\A c \in Slots :
          (calls'[c] # calls[c] /\ calls'[c].tool = "check_network_request"
                                /\ calls'[c].pc = "done")
             => /\ networkLogs' = networkLogs
                /\ IF \E i \in 1..Len(networkLogs) :
                          HasSubstring(networkLogs[i].url, calls'[c].arg)
                   THEN /\ calls'[c].ret.kind = "text"
                        /\ calls'[c].ret.msg = "json"
                        /\ calls'[c].ret.data = Stringify(networkLogs)
                   ELSE /\ calls'[c].ret.kind = "text"
                        /\ calls'[c].ret.msg = "NoRequestFound"
                        /\ calls'[c].ret.data = <<>>]_vars

C9_Witness ==
    \E c \in Slots :
        /\ calls[c].pc = "done"
        /\ calls[c].tool = "check_network_request"
        /\ \E i, j \in 1..Len(calls[c].ret.data) :
              /\ HasSubstring(calls[c].ret.data[i].url, calls[c].arg)
              /\ ~HasSubstring(calls[c].ret.data[j].url, calls[c].arg)

\* C10: a visit_page whose page.goto failed has returned the failure text
\* with the error in it and left browser and page as they were when goto was
\* called; the call after it, when the browser is still connected and the
\* page still open, gets that stored page from initBrowser at once, with no
\* close, no launch and no new page.
C10_NavigationFailureContained ==
    \A c \in Slots :
        /\ (calls[c].pc = "done" /\ calls[c].g.gotoFailed)
              => /\ calls[c].ret.kind = "text"
                 /\ calls[c].ret.msg = "VisitFailed"
                 /\ \E e \in GotoErrors : calls[c].ret.detail = <<e>>
                 /\ browser = calls[c].g.gb
                 /\ page = calls[c].g.gp
                 /\ page # 0
        /\ (calls[c].g.prev = "visit_failed" /\ calls[c].g.acq # "none"
                                              /\ calls[c].g.live0)
              => /\ Acquired(c)
                 /\ calls[c].g.ap = calls[c].g.p0
                 /\ calls[c].g.nl = 0
                 /\ calls[c].g.nc = 0
                 /\ calls[c].g.no = 0

C10_Witness ==
    \E c \in Slots :
        /\ Acquired(c)
        /\ calls[c].g.prev = "visit_failed"
        /\ calls[c].g.live0

\* the least index of a set of indices, 0 when the set is empty
Least(S) == IF S = {} THEN 0 ELSE CHOOSE i \in S : \A j \in S : i <= j

\* the first input or textarea of doc whose placeholder contains k or whose
\* first label's text contains k, 0 when there is none
FirstFillMatch(doc, k) ==
    Least({ i \in 1..Len(doc) :
              /\ doc[i].tag \in {"input", "textarea"}
              /\ \/ HasSubstring(doc[i].placeholder, k)
                 \/ (doc[i].hasLabel /\ HasSubstring(doc[i].label, k)) })

\* C11: once the lookup of fill_form(k) has run on a document, the element
\* the call holds is the first input or textarea, in document order, whose
\* placeholder contains k or whose label text contains k; the call has
\* returned the not-found text if and only if there is no such element.  On
\* inputs with placeholders Em and Em2 and keyword Em it is the first.
C11_FillFormTarget ==
    \A c \in Slots :
        (calls[c].tool = "fill_form" /\ calls[c].g.ev)
            => LET want == FirstFillMatch(calls[c].g.doc, calls[c].arg)
               IN /\ calls[c].g.el = want
                  /\ (calls[c].pc = "done" /\ calls[c].ret.msg = "InputNotFound")
                        <=> want = 0
                  /\ (calls[c].g.doc = DocForm /\ calls[c].arg = Email)
                        => calls[c].g.el = 1

\* the first anchor, button or submit input of doc whose text contains k or
\* whose type equals k, 0 when there is none
FirstClickMatch(doc, k) ==
    Least({ i \in 1..Len(doc) :
              /\ \/ doc[i].tag \in {"a", "button"}
                 \/ (doc[i].tag = "input" /\ doc[i].typeAttr = SubmitT)
              /\ \/ HasSubstring(doc[i].text, k)
                 \/ TypeProp(doc[i]) = k })

\* C12: a click_element(k) whose lookup has run on a document clicked the
\* first anchor, button or submit input, in document order, whose text
\* contains k or whose type equals k, and returned the found text; it clicked
\* nothing and returned the not-found text if and only if there is no such
\* element.
C12_ClickElementTarget ==
    \A c \in Slots :
        (calls[c].tool = "click_element" /\ calls[c].g.ev)
            => LET want == FirstClickMatch(calls[c].g.doc, calls[c].arg)
               IN /\ calls[c].g.el = want
                  /\ calls[c].ret.msg = (IF want = 0 THEN "NotFound" ELSE "Clicked")

\* C13: at most one launched browser is alive (launched, neither closed nor
\* disconnected): when initBrowser has launched a browser, every browser
\* launched before it is closed or disconnected.
C13_SingleSession == Cardinality(connected) <= 1

\* C14: a call suspended at the close of the stale browser goes on to
\* puppeteer.launch whatever the outcome of the close: an error of the close
\* does not end the call.
C14_CloseErrorSwallowed ==
    [][\A c \in Slots :
          (calls[c].pc = "close" /\ calls'[c] # calls[c])
             => calls'[c].pc = "launch"]_vars

\* C15: nothing queues or locks overlapping calls.  A call dispatched while
\* another is in flight has, in the same step, entered initBrowser and read
\* the stored browser and page as they are at that moment; and a call that
\* holds a page keeps that handle for as long as it is in flight, whatever the
\* other calls do to the stored references.  (The unsafe state this leads to
\* is C15_Witness.)
C15_NoQueuingNoLocking ==
    [][\A c \in Slots :
          /\ (Free(St, c) /\ InFlight(St) # {} /\ calls'[c].pc \notin {"idle", "done"})
                => /\ calls'[c].g.acq \in {"pending", "returned"}
                   /\ calls'[c].g.b0 = browser
                   /\ calls'[c].g.p0 = page
          /\ (Acquired(c) /\ calls'[c].pc \notin {"idle", "done"})
                => calls'[c].p = calls[c].p]_vars

\* two calls overlap and one of them holds a page that is not the stored page
C15_Witness ==
    \E c, d \in Slots :
        /\ c # d
        /\ Acquired(c)
        /\ ~Free(St, d)
        /\ page # 0
        /\ calls[c].p # page

\* C16: every page initBrowser has opened (each is returned by the call that
\* opened it) has exactly one response listener, also after initBrowser has
\* returned it again; a response has at most one run of the recording
\* handler: one handler waiting or one entry made, never two.
C16_RecorderAttachedOnce ==
    /\ \A p \in 1..nPages : listeners[p] = 1
    /\ \A c \in Slots : Acquired(c) => listeners[calls[c].p] = 1
    /\ \A r \in 1..nResp :
          Cardinality({ h \in handlers : h.rid = r }) + Entries(networkLogs, r) <= 1

\* a page is returned again, with no page opened by the call, and a response
\* on it has been recorded
C16_Witness ==
    \E c \in Slots :
        /\ Acquired(c)
        /\ calls[c].g.no = 0
        /\ \E r \in 1..nResp :
              /\ resp[r].page = calls[c].p
              /\ Entries(networkLogs, r) = 1

\* C17: in every step the previous content of networkLogs is a prefix of the
\* new content: entries are only appended, never removed, reordered or
\* modified, whatever the step (a response recorded, a tool call, a failed
\* initBrowser, a relaunch, a page replaced).
C17_AppendOnlyLog ==
    [][/\ Len(networkLogs') >= Len(networkLogs)
       /\ SubSeq(networkLogs', 1, Len(networkLogs)) = networkLogs]_vars

\* an entry recorded on a page that has since been replaced is still in the log
C17_Witness ==
    \E i \in 1..Len(networkLogs) :
        /\ page # 0
        /\ resp[networkLogs[i].rid].page # page

\* C18: a step of the recording handler of a retained response leaves browser
\* and page unchanged and goes through the decodes in order: from the
\* structured decode it either records the entry with the structured body or
\* goes on to the text decode, recording nothing yet; from the text decode it
\* records the entry with the text body or with null.  The handler ends in no
\* other way, so an entry is recorded in all three cases; and every body in
\* the log is one of the three.
C18_TriStateDecode ==
    [][/\ \A i \in 1..Len(networkLogs') : networkLogs'[i].body \in {"json", "text", "null"}
       /\ \A h \in handlers :
            h \notin handlers'
               => LET Recorded(body) ==
                          networkLogs' = Append(networkLogs,
                              [url |-> resp[h.rid].url, status |-> resp[h.rid].status,
                               body |-> body, rid |-> h.rid])
                  IN /\ browser' = browser
                     /\ page' = page
                     /\ \/ /\ h.pc = "json"
                           /\ \/ Recorded("json")
                              \/ /\ [h EXCEPT !.pc = "text"] \in handlers'
                                 /\ networkLogs' = networkLogs
                        \/ /\ h.pc = "text"
                           /\ Recorded("text") \/ Recorded("null")]_vars

\* the log holds an entry whose body is the raw text and one whose body is null
C18_Witness ==
    /\ \E i \in 1..Len(networkLogs) : networkLogs[i].body = "text"
    /\ \E i \in 1..Len(networkLogs) : networkLogs[i].body = "null"

\* C19: browser.close is called only inside initBrowser, on the stored
\* browser, when that browser is not connected; a call suspended at the close
\* goes on to puppeteer.launch as its next step; a browser becomes closed only
\* by such a close; and no step of a tool call or of a response handler
\* disconnects a browser or closes a page.
C19_CloseOnlyBeforeRelaunch ==
    [][/\ \A c \in Slots :
            /\ (calls[c].pc # "close" /\ calls'[c].pc = "close")
                  => /\ calls'[c].g.acq = "pending"
                     /\ calls'[c].nb = browser
                     /\ browser # 0
                     /\ browser \notin connected
            /\ (calls[c].pc = "close" /\ calls'[c] # calls[c])
                  => calls'[c].pc = "launch"
       /\ closedB' # closedB
            => \E c \in Slots :
                  /\ calls[c].pc = "close"
                  /\ calls[c].nb \notin connected
                  /\ closedB' = closedB \cup {calls[c].nb}
       /\ (connected \ connected' # {} \/ pageClosed' # pageClosed)
            => /\ calls' = calls
               /\ networkLogs' = networkLogs
               /\ handlers' = handlers]_vars

\* C20: a step that dispatches get_network_logs or check_network_request
\* completes the call at once, without initBrowser: it launches no browser,
\* opens no page, attaches no listener and leaves browser, page and
\* networkLogs unchanged; dispatched before any browser was ever launched,
\* get_network_logs returns the empty log and check_network_request the
\* not-found text.
C20_LogQueriesLeaveSession ==
    [][\A c \in Slots :
          (Free(St, c) /\ calls'[c] # calls[c]
             /\ calls'[c].tool \in {"get_network_logs", "check_network_request"})
             => /\ calls'[c].pc = "done"
                /\ calls'[c].g.acq = "none"
                /\ browser' = browser
                /\ page' = page
                /\ networkLogs' = networkLogs
                /\ nBrowsers' = nBrowsers
                /\ connected' = connected
                /\ nPages' = nPages
                /\ listeners' = listeners
                /\ (nBrowsers = 0 /\ calls'[c].tool = "get_network_logs")
                      => calls'[c].ret = JsonResult(<<>>)
                /\ (nBrowsers = 0 /\ calls'[c].tool = "check_network_request")
                      => calls'[c].ret = TextResult("NoRequestFound", calls'[c].arg)]_vars

\* check_network_request has returned before any browser was launched
C20_Witness ==
    \E c \in Slots :
        /\ calls[c].pc = "done"
        /\ calls[c].tool = "check_network_request"
        /\ nBrowsers = 0
        /\ browser = 0
        /\ page = 0

====
